---------------------------- MODULE Spec2Model ----------------------------
(***************************************************************************)
(* Model of the two scraping scripts of the repository.                    *)
(*                                                                         *)
(*   amazon.py  reads lines, derives a search title from each line         *)
(*              (extract), looks the title up with a fixed number of       *)
(*              attempts (amazon2 / amazon), normalises the product URL    *)
(*              (cleanup) and injects it into the line (addurl).           *)
(*   libgen.py  writes a download script: a header, then one wget command  *)
(*              per row of each result page, following the next-page link  *)
(*              (download / links), and then runs the script or not        *)
(*              depending on the command-line flag (main / download).      *)
(*                                                                         *)
(* Text is modelled by TLA+ strings, which TLC treats as sequences of      *)
(* characters under Len, SubSeq and \o.  Regular expressions are modelled  *)
(* by the scan Python's re module performs: leftmost match, greedy         *)
(* repetition, and for re.sub all non-overlapping matches left to right.   *)
(***************************************************************************)
EXTENDS Naturals, Sequences, FiniteSets, TLC

VARIABLES
    \* ---- amazon.py ----
    pc,         \* position in main's loop body for the current line
    line,       \* the line read from the input file
    title,      \* extract(line), the search query
    calls,      \* number of calls of amazon(title) made by amazon2
    last,       \* what the latest call of amazon(title) met
    href,       \* the href of the anchor that call found ("" when none)
    url,        \* the value amazon2 returned (or the URL given to addurl)
    newline,    \* addurl(line, url), the line written to the output file
    \* ---- libgen.py ----
    lpc,        \* position in main / download
    flag,       \* sys.argv[1] when it is one of the flags, else "none"
    ask,        \* the ask argument of download: 'Y', True or False
    cur,        \* the url variable of download's while loop ("" ends it)
    requests,   \* the URLs handed to urllib.urlopen by links, in order
    pages,      \* what each of those requests returned, in order
    created,    \* run.sh / run.bat was created and its header written
    script,     \* the wget lines appended to run.sh / run.bat, in order
    prompted,   \* raw_input was called
    answer,     \* what the user typed at the prompt
    executed,   \* os.system ran the generated script
    exc         \* the exception that escaped download ("" when none)

avars == <<pc, line, title, calls, last, href, url, newline>>
lvars == <<lpc, flag, ask, cur, requests, pages, created, script, prompted,
           answer, executed, exc>>
vars == <<avars, lvars>>

-----------------------------------------------------------------------------
(* Bounds of the model.                                                    *)

\* longest path (after the host) of the URLs given to cleanup
MaxPathLen == 6
\* longest line given to extract
MaxLineLen == 5
\* longest line given to addurl
MaxSpanLen == 6
\* most data rows in the results table of a page
MaxRows == 3
\* most pages links is called on in one run
MaxPages == 2

-----------------------------------------------------------------------------
(* Strings.                                                                *)

\* the character at position i of s
Char(s, i) == SubSeq(s, i, i)

\* s from position i to its end
From(s, i) == SubSeq(s, i, Len(s))

\* pat occurs in s at position i
MatchAt(s, pat, i) ==
    /\ i >= 1
    /\ i + Len(pat) - 1 <= Len(s)
    /\ SubSeq(s, i, i + Len(pat) - 1) = pat

\* pat occurs somewhere in s
Contains(s, pat) == \E i \in 1..Len(s) : MatchAt(s, pat, i)

\* all strings over alphabet of length at most n
RECURSIVE Strs(_, _)
Strs(alphabet, n) ==
    IF n = 0 THEN {""}
    ELSE LET shorter == Strs(alphabet, n - 1)
         IN  shorter \cup {c \o s : c \in alphabet, s \in shorter}

\* re.sub(pat, '', s) for a literal pattern: scanning from position i,
\* every non-overlapping occurrence is dropped, left to right
RECURSIVE SubLiteral(_, _, _)
SubLiteral(s, pat, i) ==
    IF i > Len(s) THEN ""
    ELSE IF MatchAt(s, pat, i) THEN SubLiteral(s, pat, i + Len(pat))
    ELSE Char(s, i) \o SubLiteral(s, pat, i + 1)

\* the largest j >= i such that every character of s in i..j-1 satisfies
\* in-set membership: a greedy character-class repetition starting at i
RECURSIVE RunEnd(_, _, _)
RunEnd(s, class, i) ==
    IF i <= Len(s) /\ Char(s, i) \in class THEN RunEnd(s, class, i + 1)
    ELSE i

\* same, for a negated class [^c]
RECURSIVE RunEndNot(_, _, _)
RunEndNot(s, c, i) ==
    IF i <= Len(s) /\ Char(s, i) # c THEN RunEndNot(s, c, i + 1)
    ELSE i

-----------------------------------------------------------------------------
(* amazon.py: cleanup.                                                     *)

\* the literal 'http://www.amazon.com/dp/%s/' up to its placeholder
AmazonDp == "http://www.amazon.com/dp/"

\* re.search('/dp/([^/]+)', u): the position of the leftmost match at or
\* after i, 0 when there is none.  A match needs "/dp/" and one character
\* other than "/" after it.
RECURSIVE DpSearch(_, _)
DpSearch(u, i) ==
    IF i + 4 > Len(u) THEN 0
    ELSE IF MatchAt(u, "/dp/", i) /\ Char(u, i + 4) # "/" THEN i
    ELSE DpSearch(u, i + 1)

\* match.group(1): the greedy run of non-slash characters after "/dp/"
DpGroup(u, m) == SubSeq(u, m + 4, RunEndNot(u, "/", m + 4) - 1)

\* a slip: the rest of the URL is kept behind the identifier
cleanupKeepsRest(u) ==
    LET m == DpSearch(u, 1)
    IN  IF m = 0 THEN u ELSE AmazonDp \o From(u, m + 4) \o "/"

cleanup(u) ==
    LET m == DpSearch(u, 1)
    IN  IF m = 0 THEN u ELSE AmazonDp \o DpGroup(u, m) \o "/"

-----------------------------------------------------------------------------
(* amazon.py: extract.                                                     *)

\* re.sub('^[ ]*-[ ]*', '', s): the pattern is anchored at the start of the
\* string, so at most one match is removed
StripBullet(s) ==
    LET j == RunEnd(s, {" "}, 1)
    IN  IF j <= Len(s) /\ Char(s, j) = "-"
        THEN From(s, RunEnd(s, {" "}, j + 1))
        ELSE s

\* a slip: the tilde substitution is left out
extractKeepsTilde(l) ==
    SubLiteral(SubLiteral(SubLiteral(StripBullet(l), "*", 1), "<!--", 1),
               "-->", 1)

extract(l) ==
    LET t1 == StripBullet(l)
        t2 == SubLiteral(t1, "*", 1)
        t3 == SubLiteral(t2, "~", 1)
        t4 == SubLiteral(t3, "<!--", 1)
    IN  SubLiteral(t4, "-->", 1)

-----------------------------------------------------------------------------
(* amazon.py: addurl.                                                      *)

\* the pattern [*]([^*]+)[*] matches at position i of s: an asterisk, one or
\* more characters other than an asterisk, an asterisk
SpanAt(s, i) ==
    /\ i + 2 <= Len(s)
    /\ Char(s, i) = "*"
    /\ Char(s, i + 1) # "*"
    /\ RunEndNot(s, "*", i + 1) <= Len(s)

\* the position of the closing asterisk of the span that starts at i
SpanEnd(s, i) == RunEndNot(s, "*", i + 1)

\* re.search(regexp, s): the position of the leftmost span at or after i,
\* 0 when there is none
RECURSIVE SpanSearch(_, _)
SpanSearch(s, i) ==
    IF i > Len(s) THEN 0
    ELSE IF SpanAt(s, i) THEN i
    ELSE SpanSearch(s, i + 1)

\* re.sub(regexp, repl, s) from position i on: every non-overlapping span
\* is replaced by repl, left to right (no count argument is given)
RECURSIVE SubSpans(_, _, _)
SubSpans(s, repl, i) ==
    IF i > Len(s) THEN ""
    ELSE IF SpanAt(s, i) THEN repl \o SubSpans(s, repl, SpanEnd(s, i) + 1)
    ELSE Char(s, i) \o SubSpans(s, repl, i + 1)

\* '*[%s](%s)*' % (title, url)
Repl(t, u) == "*[" \o t \o "](" \o u \o ")*"

addurl(l, u) ==
    LET m == SpanSearch(l, 1)
    IN  IF m = 0 THEN l
        ELSE SubSpans(l, Repl(SubSeq(l, m + 1, SpanEnd(l, m) - 1), u), 1)

-----------------------------------------------------------------------------
(* amazon.py: amazon, amazon2 and main.                                    *)

\* range(0, 30) of amazon2
Attempts == 30

\* scheme and host of the search URL amazon builds
SearchRoot == "http://www.amazon.com"

\* the search URL up to the last slash of its path
SearchDir == "http://www.amazon.com/s/ref=nb_sb_noss/"

\* urlparse.urljoin(url, a['href']) for the search URL of amazon: an
\* absolute href stands for itself, an href that starts with a slash is
\* resolved against the host, any other against the directory of the path.
\* (The hrefs of the model are non-empty and hold no "..", "?" or "#".)
urljoin(h) ==
    IF MatchAt(h, "http://", 1) THEN h
    ELSE IF MatchAt(h, "/", 1) THEN SearchRoot \o h
    ELSE SearchDir \o h

\* what a call of amazon(title) can meet before it returns "": urlopen or
\* the parser raising IOError, no <div id="atfResults">, no
\* <a class="a-link-normal"> inside the div
Misses == {"ioerror", "nodiv", "noanchor"}

\* the hrefs the first result anchor may carry
Hrefs == {"/Some-Title/dp/B000123ABC/ref=sr_1_1", "/dp/B01/",
          "/gp/product/B000", "http://www.amazon.co.uk/x/dp/0131103628",
          "dp/B02"}

\* the lines main is run on in the specification of the lookup
Lines == {"- *Some Title*", "plain text", "*a* and *b*"}

\* a slip: the loop runs once too often
OneMoreAttempt(i) == i < Attempts + 1

\* for i in range(0, 30): the loop body runs for i
InRange(i) == i < Attempts

\* a slip: the result of amazon is never taken for a match
NeverTruthy(u) == FALSE

\* Python's None (what a bare return gives)
None == "None"

\* if url: / while url: Python's truth value of a string or None
Truthy(u) == u # "" /\ u # None

\* title = extract(line), the argument of amazon2 in main
Extract ==
    /\ pc = "read"
    /\ title' = extract(line)
    /\ pc' = "search"
    /\ UNCHANGED <<line, calls, last, href, url, newline, lvars>>

\* the end of one iteration of amazon2's loop in which amazon returned r
Iterate(r) ==
    IF Truthy(r) THEN url' = r /\ pc' = "searched"
    ELSE IF InRange(calls + 1) THEN UNCHANGED url /\ pc' = "search"
    ELSE url' = "" /\ pc' = "searched"

\* one iteration of amazon2's loop whose call of amazon(title) finds no
\* result or fails with IOError: amazon returns ""
AttemptMiss ==
    /\ pc = "search"
    /\ InRange(calls)
    /\ \E m \in Misses : last' = m
    /\ calls' = calls + 1
    /\ href' = ""
    /\ Iterate("")
    /\ UNCHANGED <<line, title, newline, lvars>>

\* one iteration whose call of amazon(title) finds the anchor: amazon
\* returns cleanup(urlparse.urljoin(url, a['href']))
AttemptFound ==
    /\ pc = "search"
    /\ InRange(calls)
    /\ \E h \in Hrefs :
          /\ href' = h
          /\ Iterate(cleanup(urljoin(h)))
    /\ last' = "found"
    /\ calls' = calls + 1
    /\ UNCHANGED <<line, title, newline, lvars>>

\* one iteration whose call finds an anchor that has no href attribute:
\* a['href'] raises KeyError, which neither amazon nor amazon2 catches
AttemptNoHref ==
    /\ pc = "search"
    /\ InRange(calls)
    /\ last' = "nohref"
    /\ calls' = calls + 1
    /\ href' = ""
    /\ pc' = "raised"
    /\ UNCHANGED <<line, title, url, newline, lvars>>

\* newline = addurl(line, url), printed and written to the output file
Addurl ==
    /\ pc = "searched"
    /\ newline' = addurl(line, url)
    /\ pc' = "written"
    /\ UNCHANGED <<line, title, calls, last, href, url, lvars>>

\* cleanup applied to the URL in href (the specification of cleanup alone)
Cleanup ==
    /\ pc = "cleanup"
    /\ url' = cleanup(href)
    /\ pc' = "cleaned"
    /\ UNCHANGED <<line, title, calls, last, href, newline, lvars>>

\* libgen.py takes no part in the specifications of amazon.py
LIdle ==
    /\ lpc = "idle"
    /\ flag = "none"
    /\ ask = "Y"
    /\ cur = ""
    /\ requests = <<>>
    /\ pages = <<>>
    /\ created = FALSE
    /\ script = <<>>
    /\ prompted = FALSE
    /\ answer = ""
    /\ executed = FALSE
    /\ exc = ""

\* ---- the lookup of one line: main's loop body ----
InitLookup ==
    /\ pc = "read"
    /\ line \in Lines
    /\ title = ""
    /\ calls = 0
    /\ last = "none"
    /\ href = ""
    /\ url = ""
    /\ newline = ""
    /\ LIdle

NextLookup ==
    \/ Extract
    \/ AttemptMiss
    \/ AttemptFound
    \/ AttemptNoHref
    \/ Addurl

SpecLookup == InitLookup /\ [][NextLookup]_vars

\* ---- cleanup alone ----
\* scheme and host of the URLs given to cleanup
Hosts == {"http://www.amazon.com", "http://example.com"}

\* the characters of the paths given to cleanup
PathChars == {"/", "d", "p", "B"}

\* the URLs given to cleanup: a host, then nothing or a path
CleanupUrls ==
    {"http://example.com/dp/B000123ABC/ref=xyz",
     "http://www.amazon.com/Some-Title/dp/B000123ABC?ie=UTF8"}
    \cup {h \o q : h \in Hosts,
                   q \in {""} \cup {"/" \o r : r \in Strs(PathChars, MaxPathLen - 1)}}

InitCleanup ==
    /\ pc = "cleanup"
    /\ href \in CleanupUrls
    /\ line = ""
    /\ title = ""
    /\ calls = 0
    /\ last = "none"
    /\ url = ""
    /\ newline = ""
    /\ LIdle

SpecCleanup == InitCleanup /\ [][Cleanup]_vars

\* ---- extract alone ----
\* the characters of the lines given to extract
LineChars == {"-", " ", "*", "~", "<", "!", ">", "T"}

\* load strips trailing white space from every line
Rstripped(l) == l = "" \/ Char(l, Len(l)) # " "

ExtractLines ==
    {"- *Some Title*", "<!--comment--> ~Title~", "<-->!--", "T---->>"}
    \cup {l \in Strs(LineChars, MaxLineLen) : Rstripped(l)}

InitExtract ==
    /\ pc = "read"
    /\ line \in ExtractLines
    /\ title = ""
    /\ calls = 0
    /\ last = "none"
    /\ href = ""
    /\ url = ""
    /\ newline = ""
    /\ LIdle

SpecExtract == InitExtract /\ [][Extract]_vars

\* ---- addurl alone ----
\* the characters of the lines given to addurl
SpanChars == {"*", "a", "b"}

AddurlLines ==
    {"- *Some Title*", "no span here"}
    \cup {l \in Strs(SpanChars, MaxSpanLen) : Rstripped(l)}

\* the URLs given to addurl: what amazon2 may return
AddurlUrls == {"", "http://x/y"}

InitAddurl ==
    /\ pc = "searched"
    /\ line \in AddurlLines
    /\ url \in AddurlUrls
    /\ title = ""
    /\ calls = 0
    /\ last = "none"
    /\ href = ""
    /\ newline = ""
    /\ LIdle

SpecAddurl == InitAddurl /\ [][Addurl]_vars

-----------------------------------------------------------------------------
(* Properties of amazon.py.                                                *)

\* amazon2 has returned (main may have gone on to addurl)
Returned == pc \in {"searched", "written"}

\* C1: when no call of amazon yields a match, amazon2 has called amazon
\* exactly Attempts (30) times when it returns, and it returns the empty
\* string; it never calls amazon more than 30 times.
C1_NoMatchExactlyNCalls ==
    /\ calls <= 30
    /\ (Returned /\ last # "found") => (calls = 30 /\ url = "")

C1_Witness ==
    /\ pc = "searched"
    /\ last \in Misses
    /\ calls = 30
    /\ url = ""

\* C2: amazon2 returns the normalised URL of the first call that finds a
\* match and calls amazon no more after it.  While amazon2 is looping no
\* earlier call has found a match; the call that finds one is counted and
\* ends the loop with that call's URL; after the return the count of calls
\* stays as it is.
C2_FirstMatchReturned ==
    /\ [](pc = "search" => last \in Misses \cup {"none"})
    /\ []((Returned /\ last = "found") =>
            (calls \in 1..30 /\ url = cleanup(urljoin(href))))
    /\ [][calls' # calls => (pc = "search" /\ calls' = calls + 1)]_vars
    /\ [][(calls' # calls /\ last' = "found") => pc' = "searched"]_vars
    /\ [][Returned => calls' = calls]_vars

C2_Witness ==
    /\ pc = "searched"
    /\ last = "found"
    /\ calls = 1
    /\ href = "/Some-Title/dp/B000123ABC/ref=sr_1_1"
    /\ url = "http://www.amazon.com/dp/B000123ABC/"

\* the positions of u at which "/dp/" and a character other than a slash
\* follow
DpPlaces(u) ==
    {i \in 1..Len(u) :
        MatchAt(u, "/dp/", i) /\ i + 4 <= Len(u) /\ Char(u, i + 4) # "/"}

\* the least member of a non-empty set of numbers
Least(S) == CHOOSE i \in S : \A j \in S : i <= j

\* the identifier at place i: the characters after "/dp/" up to the next
\* slash or the end of u
IdAt(u, i) ==
    LET stops == {j \in (i + 4)..(Len(u) + 1) : j = Len(u) + 1 \/ Char(u, j) = "/"}
    IN  SubSeq(u, i + 4, Least(stops) - 1)

\* scheme and host of a URL that starts with "http://"
HostOf(u) ==
    LET stops == {j \in 8..(Len(u) + 1) : j = Len(u) + 1 \/ Char(u, j) = "/"}
    IN  SubSeq(u, 1, Least(stops) - 1)

\* C3 as stated: a URL with a /dp/<id> segment comes back with its own
\* scheme and host, the path /dp/<id>/ and nothing else; any other URL comes
\* back unchanged.
C3_AsStated ==
    pc = "cleaned" =>
        IF DpPlaces(href) = {} THEN url = href
        ELSE url = HostOf(href) \o "/dp/" \o IdAt(href, Least(DpPlaces(href))) \o "/"

\* C3 amended: a URL in which "/dp/" is followed by a character other than
\* a slash comes back as http://www.amazon.com/dp/<id>/, <id> being the
\* characters between the first such "/dp/" and the next slash (or the end),
\* whatever the scheme and host of the input; any other URL comes back
\* unchanged.
C3_CanonicalAmazonUrl ==
    pc = "cleaned" =>
        IF DpPlaces(href) = {} THEN url = href
        ELSE url = "http://www.amazon.com/dp/"
                     \o IdAt(href, Least(DpPlaces(href))) \o "/"

C3_Witness ==
    /\ pc = "cleaned"
    /\ href = "http://example.com/dp/B000123ABC/ref=xyz"
    /\ url = "http://www.amazon.com/dp/B000123ABC/"

\* the positions of l at which an asterisk-delimited span starts
SpanPlaces(l) ==
    {i \in 1..Len(l) :
        /\ Char(l, i) = "*"
        /\ \E e \in (i + 2)..Len(l) :
              /\ Char(l, e) = "*"
              /\ \A k \in (i + 1)..(e - 1) : Char(l, k) # "*"}

\* the closing asterisk of the span that starts at i
ClosingOf(l, i) == Least({e \in (i + 1)..Len(l) : Char(l, e) = "*"})

\* C4 as stated: addurl rewrites the first span *T* into *[T](url)* and
\* leaves every other character of the line as it was; a line with no span
\* comes back unchanged.
C4_AsStated ==
    pc = "written" =>
        IF SpanPlaces(line) = {} THEN newline = line
        ELSE LET m == Least(SpanPlaces(line))
                 e == ClosingOf(line, m)
             IN  newline = SubSeq(line, 1, m - 1)
                             \o "*[" \o SubSeq(line, m + 1, e - 1) \o "]("
                             \o url \o ")*"
                             \o From(line, e + 1)

\* a is b with some characters left out (from positions i and j on)
RECURSIVE IsSubseq(_, _, _, _)
IsSubseq(a, i, b, j) ==
    IF i > Len(a) THEN TRUE
    ELSE IF j > Len(b) THEN FALSE
    ELSE IF Char(a, i) = Char(b, j) THEN IsSubseq(a, i + 1, b, j + 1)
    ELSE IsSubseq(a, i, b, j + 1)

\* the characters of s that are not in the set drop, in order
RECURSIVE Without(_, _)
Without(s, drop) ==
    IF s = "" THEN ""
    ELSE (IF Head(s) \in drop THEN "" ELSE Head(s)) \o Without(Tail(s), drop)

\* s starts with a hyphen-bullet: optional blanks and a hyphen
HasBullet(s) ==
    \E j \in 1..Len(s) :
        Char(s, j) = "-" /\ \A k \in 1..(j - 1) : Char(s, k) = " "

\* the characters the substitutions of extract can remove
MarkupChars == {" ", "-", "*", "~", "<", "!", ">"}

-----------------------------------------------------------------------------
(* libgen.py: the pages links reads.                                       *)

\* the target directory given on the command line (sys.argv[1] after the
\* flag is popped)
Path == "dir"

\* 'http://gen.lib.rus.ec/search.php?req=%s' % urllib.quote_plus(path)
StartUrl == "http://gen.lib.rus.ec/search.php?req=dir"

\* what the next-page link of a page may resolve to
NextUrls == {"http://gen.lib.rus.ec/search.php?req=dir&page=2",
             "http://gen.lib.rus.ec/search.php?req=dir&page=3"}

\* a data row is complete ("ok"), has fewer cells than links indexes
\* ("nocells") or carries no link to the mirror domain ("nolink")
Kinds == {"ok", "nocells", "nolink"}

\* the header row of the results table
Header == [kind |-> "header", id |-> "ID", ext |-> "Extension", href |-> ""]

\* the decimal digit n
Digit(n) == SubSeq("0123456789", n + 1, n + 1)

\* data row i of the page answered to request n: its identifier names its
\* place, and the rows link by turns to the ad-supported and to the direct
\* variant of the download
MkRow(n, i, k) ==
    [kind |-> k,
     id   |-> Digit(n) \o "0" \o Digit(i),
     ext  |-> IF i % 2 = 1 THEN "pdf" ELSE "epub",
     href |-> IF k = "nolink" THEN ""
              ELSE IF i % 2 = 1
              THEN "http://libgen.io/get_ads.php?md5=" \o Digit(n) \o Digit(i)
              ELSE "http://libgen.io/get.php?md5=" \o Digit(n) \o Digit(i)]

\* all sequences of at most n row kinds
KindSeqs(n) == UNION {[1..k -> Kinds] : k \in 0..n}

\* what request n may be answered with: a failure of the transport, a page
\* with no results table, a table with no row at all, or a table of a header
\* row and data rows; a page that was fetched may carry a next-page link
PagesAt(n) ==
    {[status |-> "ioerror", table |-> FALSE, trs |-> <<>>, next |-> ""]}
    \cup
    {[status |-> "ok", table |-> t, trs |-> <<>>, next |-> x] :
        t \in BOOLEAN, x \in {""} \cup NextUrls}
    \cup
    {[status |-> "ok", table |-> TRUE,
      trs |-> <<Header>> \o [i \in 1..Len(ks) |-> MkRow(n, i, ks[i])],
      next |-> x] :
        ks \in KindSeqs(MaxRows), x \in {""} \cup NextUrls}

-----------------------------------------------------------------------------
(* libgen.py: links.                                                       *)

\* str.replace(old, new) from position i on: every non-overlapping
\* occurrence, left to right
RECURSIVE Replace(_, _, _, _)
Replace(s, old, new, i) ==
    IF i > Len(s) THEN ""
    ELSE IF MatchAt(s, old, i) THEN new \o Replace(s, old, new, i + Len(old))
    ELSE Char(s, i) \o Replace(s, old, new, i + 1)

\* the wget line of a complete row: link is the row's mirror link (absolute,
\* so urljoin leaves it as it is), link2 its direct variant
Wget(tr) ==
    "wget -c -w 60 -t inf -T 10 -O \"" \o tr.id \o " " \o Path \o "." \o tr.ext
      \o "\" --referer \"" \o tr.href
      \o "\" \"" \o Replace(tr.href, "get_ads", "get", 1) \o "\"\n"

\* for tr in trs: the lines written until a row raises.  tds[0] / tds[8]
\* raise IndexError on a row with too few cells, tr.find(href=fn)['href']
\* raises TypeError on a row with no mirror link.
RECURSIVE ForRows(_)
ForRows(trs) ==
    IF trs = <<>> THEN [cmds |-> <<>>, exc |-> ""]
    ELSE LET tr == Head(trs)
         IN  IF tr.kind = "nocells" THEN [cmds |-> <<>>, exc |-> "IndexError"]
             ELSE IF tr.href = "" THEN [cmds |-> <<>>, exc |-> "TypeError"]
             ELSE LET rest == ForRows(Tail(trs))
                  IN  [cmds |-> <<Wget(tr)>> \o rest.cmds, exc |-> rest.exc]

\* a slip: the first page is asked for again
FirstPageAgain(u, p) == StartUrl

\* the url links returns after the rows: the target of the next-page link
\* (urlparse.urljoin(url, a['href'])), or '' when the page has none
NextUrl(u, p) == IF p.next # "" THEN p.next ELSE ""

\* a slip: a page with no table is skipped and its next-page link followed
OnNoTableFollows(u, p) == [cmds |-> <<>>, ret |-> NextUrl(u, p), exc |-> ""]

\* if not table: return
OnNoTable(u, p) == [cmds |-> <<>>, ret |-> None, exc |-> ""]

\* a variant: the test looks at the rows left once the header is dropped
NoDataRows(trs) == Len(trs) <= 1

\* if not trs: the test made before trs.pop(0)
NoRows(trs) == trs = <<>>

\* trs.pop(0): the rows the loop goes through
DataRows(trs) == Tail(trs)

\* links(url, path, script) on page p: the lines it appends to the script,
\* the value it returns and the exception that leaves it ("" when none).
\* IOError from urlopen or open is caught and gives a bare return.
links(u, p) ==
    IF p.status = "ioerror" THEN [cmds |-> <<>>, ret |-> None, exc |-> ""]
    ELSE IF ~p.table THEN OnNoTable(u, p)
    ELSE IF NoRows(p.trs) THEN [cmds |-> <<>>, ret |-> None, exc |-> ""]
    ELSE LET r == ForRows(DataRows(p.trs))
         IN  IF r.exc # "" THEN [cmds |-> r.cmds, ret |-> None, exc |-> r.exc]
             ELSE [cmds |-> r.cmds, ret |-> NextUrl(u, p), exc |-> ""]

-----------------------------------------------------------------------------
(* libgen.py: main and download.                                           *)

\* sys.argv[1] when it is a flag
Flags == {"none", "-y", "-n", "-o"}

\* what the user may type at the prompt
Answers == {"y", "Y", "n", ""}

\* str.upper on those answers
Upper(a) == IF a = "y" THEN "Y" ELSE IF a = "n" THEN "N" ELSE a

\* main: ask is 'Y' by default, True after -y, False after -n
AskOf(f) == IF f = "-y" THEN "True" ELSE IF f = "-n" THEN "False" ELSE "Y"

\* the truth value of ask
AskTruthy(a) == a # "False"

\* main: the flag is read; with -o the start URL is opened, otherwise
\* download is called
Main ==
    /\ lpc = "main"
    /\ ask' = AskOf(flag)
    /\ IF flag = "-o"
       THEN lpc' = "opened" /\ UNCHANGED cur
       ELSE lpc' = "download" /\ cur' = StartUrl
    /\ UNCHANGED <<flag, requests, pages, created, script, prompted, answer,
                   executed, exc, avars>>

\* download: the directory is made and entered, the script is created and
\* its header written.  IOError makes download return; OSError (os.mkdir,
\* os.chdir) is not caught.
Create ==
    /\ lpc = "download"
    /\ \E outcome \in {"ok", "IOError", "OSError"} :
          /\ created' = (outcome = "ok")
          /\ lpc' = (IF outcome = "ok" THEN "loop"
                     ELSE IF outcome = "IOError" THEN "done" ELSE "raised")
          /\ exc' = (IF outcome = "OSError" THEN "OSError" ELSE exc)
    /\ UNCHANGED <<flag, ask, cur, requests, pages, script, prompted, answer,
                   executed, avars>>

\* while url: url = links(url, path, script), one iteration
Links ==
    /\ lpc = "loop"
    /\ Truthy(cur)
    /\ Len(requests) < MaxPages
    /\ \E p \in PagesAt(Len(requests) + 1) :
          LET r == links(cur, p)
          IN  /\ requests' = Append(requests, cur)
              /\ pages' = Append(pages, p)
              /\ script' = script \o r.cmds
              /\ exc' = r.exc
              /\ IF r.exc # "" THEN lpc' = "raised" /\ UNCHANGED cur
                 ELSE /\ cur' = r.ret
                      /\ lpc' = (IF Truthy(r.ret) THEN "loop" ELSE "collected")
    /\ UNCHANGED <<flag, ask, created, prompted, answer, executed, avars>>

\* download after the loop: the script is run when ask is 'Y', or when ask
\* is true and the user answers the prompt with y or Y
Finish ==
    /\ lpc = "collected"
    /\ IF AskTruthy(ask) /\ ask # "Y"
       THEN \E a \in Answers :
               /\ prompted' = TRUE
               /\ answer' = a
               /\ executed' = (Upper(a) = "Y")
       ELSE /\ executed' = AskTruthy(ask)
            /\ UNCHANGED <<prompted, answer>>
    /\ lpc' = "done"
    /\ UNCHANGED <<flag, ask, cur, requests, pages, created, script, exc, avars>>

\* amazon.py takes no part in the specification of libgen.py
AIdle ==
    /\ pc = "idle"
    /\ line = ""
    /\ title = ""
    /\ calls = 0
    /\ last = "none"
    /\ href = ""
    /\ url = ""
    /\ newline = ""

InitLibgen ==
    /\ lpc = "main"
    /\ flag \in Flags
    /\ ask = "Y"
    /\ cur = ""
    /\ requests = <<>>
    /\ pages = <<>>
    /\ created = FALSE
    /\ script = <<>>
    /\ prompted = FALSE
    /\ answer = ""
    /\ executed = FALSE
    /\ exc = ""
    /\ AIdle

NextLibgen ==
    \/ Main
    \/ Create
    \/ Links
    \/ Finish

SpecLibgen == InitLibgen /\ [][NextLibgen]_vars

-----------------------------------------------------------------------------
(* Properties of libgen.py.                                                *)

\* the while loop of download is over and nothing was raised
Collected == lpc \in {"collected", "done"} /\ created

\* the data rows of a fetched page: the rows of its table but the first
RowsBelowHeader(p) ==
    IF p.status = "ok" /\ p.table /\ Len(p.trs) >= 1
    THEN SubSeq(p.trs, 2, Len(p.trs))
    ELSE <<>>

\* the data rows of pages 1..k, page after page, in row order
RECURSIVE RowsUpTo(_)
RowsUpTo(k) ==
    IF k = 0 THEN <<>> ELSE RowsUpTo(k - 1) \o RowsBelowHeader(pages[k])

\* script line j is the transfer command of row tr: a wget line whose
\* destination is "<id> <directory>.<ext>"
CommandOf(j, tr) ==
    /\ MatchAt(script[j], "wget ", 1)
    /\ Contains(script[j], "-O \"" \o tr.id \o " dir." \o tr.ext \o "\" ")

Fetches == Len(pages') = Len(pages) + 1

\* the page that call read
Fetched == pages'[Len(pages')]

\* C6: a call of links whose fetch fails or whose page has no results table
\* writes no command, raises nothing and ends the loop; once the loop is
\* over no page is fetched and the script stays as it is.
C6_FailureEndsCollection ==
    /\ [][(Fetches /\ (Fetched.status = "ioerror" \/ ~Fetched.table)) =>
            (script' = script /\ exc' = "" /\ lpc' = "collected")]_vars
    /\ [][(lpc \in {"collected", "done"}) =>
            (exc' = "" /\ requests' = requests /\ script' = script)]_vars

\* the second page has no table though it carries a next-page link; the
\* three commands of the first page are in the script
C6_Witness ==
    /\ lpc = "done"
    /\ exc = ""
    /\ Len(pages) = 2
    /\ pages[2].status = "ok"
    /\ ~pages[2].table
    /\ pages[2].next # ""
    /\ Len(script) = 3

\* C7 as stated: with -y the script is run after its creation and the user
\* is not prompted; with -n the script is not run and the user is not
\* prompted.
C7_AsStated ==
    /\ flag = "-y" => (~prompted /\ (Collected /\ lpc = "done" => executed))
    /\ flag = "-n" => (~prompted /\ ~executed)

\* an element links expects is missing from a page that was fetched
StructuralMiss(p) ==
    /\ p.status = "ok"
    /\ \/ ~p.table
       \/ \E i \in 1..Len(RowsBelowHeader(p)) : RowsBelowHeader(p)[i].kind # "ok"

\* C9 as stated: a page with a missing element ends the collection (it is
\* the last page fetched, and the loop is over) and no exception escapes
\* download.
C9_AsStated ==
    \A k \in 1..Len(pages) :
        StructuralMiss(pages[k]) =>
            (exc = "" /\ k = Len(pages) /\ lpc \in {"collected", "done"})

\* C10 as stated: a page whose table has no data rows (no row at all, or
\* the header row alone) gets no command and ends the collection, whether
\* or not it carries a next-page link.
C10_AsStated ==
    [][(Fetches /\ Fetched.status = "ok" /\ Fetched.table
          /\ Len(Fetched.trs) <= 1) =>
            (script' = script /\ lpc' = "collected")]_vars

\* C10 amended: a page whose table has no row at all gets no command and
\* ends the collection, whether or not it carries a next-page link; a page
\* whose table has the header row alone gets no command either, but its
\* next-page link is followed when it has one, and the collection ends only
\* when it has none.
C10_HeaderOnlyPageIsFollowed ==
    [][(Fetches /\ Fetched.status = "ok" /\ Fetched.table) =>
          /\ Fetched.trs = <<>> =>
                (exc' = "" /\ script' = script /\ lpc' = "collected")
          /\ Len(Fetched.trs) = 1 =>
                /\ script' = script
                /\ exc' = ""
                /\ IF Fetched.next = "" THEN lpc' = "collected"
                   ELSE lpc' = "loop" /\ cur' = Fetched.next]_vars

\* the first page had the header row alone and a next-page link, and the
\* target of that link was fetched
C10_Witness ==
    /\ Len(requests) = 2
    /\ pages[1].table
    /\ Len(pages[1].trs) = 1
    /\ pages[1].next # ""
    /\ requests[2] = pages[1].next

=============================================================================
